---- MODULE Spec2Model ----
(***************************************************************************)
(* Model of app.py: the bounded breadth-first crawl of UMLS relations      *)
(* (find_uri_from_name, get_request, get_relations, the loop of main) and  *)
(* the node-depth derivation of create_3d_graph.                           *)
(*                                                                         *)
(* A URI is the sequence of its '/'-separated segments, so that            *)
(* uri.split('/')[-1] is its last element.  A label is the sequence of the *)
(* pieces the f-string of get_relations concatenates.  The DiGraph is kept *)
(* as networkx keeps it: nodes in insertion order, and one entry per       *)
(* (u, v) in the order in which the pair was first added.                  *)
(***************************************************************************)
EXTENDS Integers, Sequences, FiniteSets, TLC

\* ---------------------------------------------------------------- bounds
\* largest max_depth explored (the slider of main offers 1..5; the loop of
\* main is explored for every max_depth in 0..MaxDepthBound)
MaxDepthBound == 2
\* largest number of relation records on one page of the service
MaxPage == 2

\* ---------------------------------------------------------------- inputs
\* Display names: "A" and "B" are English, "X" is in another language, and
\* the empty name is one on which langdetect's detect() raises.
SeedUri == <<"CUI", "C1">>

\* the search results the service may rank first
Seeds == { [name |-> n, uri |-> SeedUri] : n \in {"A", "X"} }

\* the relation records the service may return
Records ==
    { [relatedIdName |-> "B", relatedId |-> <<"CUI", "C2">>,
       relationLabel |-> "RO", additionalRelationLabel |-> ""],
      [relatedIdName |-> "B", relatedId |-> <<"2024AB", "CUI", "C2">>,
       relationLabel |-> "RB", additionalRelationLabel |-> "inverse_isa"],
      [relatedIdName |-> "A", relatedId |-> <<"CUI", "C3">>,
       relationLabel |-> "RO", additionalRelationLabel |-> ""],
      [relatedIdName |-> "X", relatedId |-> <<"CUI", "C1">>,
       relationLabel |-> "RN", additionalRelationLabel |-> "isa"],
      [relatedIdName |-> "", relatedId |-> <<"CUI", "C3">>,
       relationLabel |-> "RO", additionalRelationLabel |-> ""] }

RECURSIVE SeqsUpTo(_, _)
SeqsUpTo(S, n) ==
    IF n = 0 THEN { <<>> }
    ELSE LET shorter == SeqsUpTo(S, n - 1)
         IN  shorter \cup { Append(s, x) : s \in shorter, x \in S }

Pages == SeqsUpTo(Records, MaxPage)

StatusCodes == {200, 500}

\* HTTP responses of the relations endpoint: a page with status 200, or an
\* error status
RelationResponses ==
    { [status_code |-> 200, result |-> p] : p \in Pages }
        \cup { [status_code |-> 500, result |-> <<>>] }

\* HTTP responses of the search endpoint
SearchResponses ==
    { [status_code |-> 200, results |-> <<s>>] : s \in Seeds }
        \cup { [status_code |-> c, results |-> <<>>] : c \in StatusCodes }

\* ---------------------------------------------------------------- state
VARIABLES
    pc,             \* position in main
    max_depth,      \* the depth bound of the run
    search_data,    \* what get_request returned to find_uri_from_name
    name_start,     \* seed name
    uri_start,      \* seed uri
    frontier,       \* deque of <<name, uri>>
    current_node,   \* the entry popped last
    expanded_uris,  \* list of entity ids
    graph,          \* the DiGraph
    depth,          \* current level
    remaining,      \* iterations left of "for _ in range(len(frontier))"
    fault,          \* the exception that ended the run, if any
    depth_values,   \* create_3d_graph's colour values, aligned with nodes
    calls,          \* history: the get_relations invocations, in order
    frontierTag,    \* history: for each frontier entry, when it was enqueued
    currentTag,     \* history: the same for current_node
    enqueued,       \* history: number of entries ever enqueued
    dropped,        \* history: names of records that failed the check
    writes          \* history: the add_edge calls, in order

vars == << pc, max_depth, search_data, name_start, uri_start, frontier,
           current_node, expanded_uris, graph, depth, remaining, fault,
           depth_values, calls, frontierTag, currentTag, enqueued, dropped,
           writes >>

\* ---------------------------------------------------------------- helpers
NoData == [isNone |-> TRUE, result |-> <<>>, results |-> <<>>]

\* get_request: the parsed body on status 200, None otherwise
get_request(response) ==
    IF response.status_code = 200
    THEN [isNone |-> FALSE,
          result |-> IF "result" \in DOMAIN response
                     THEN response.result ELSE <<>>,
          results |-> IF "results" \in DOMAIN response
                      THEN response.results ELSE <<>>]
    ELSE NoData

\* find_uri_from_name falling back to the term and the query it sent
find_uri_from_name_Fallback(data) ==
    IF ~data.isNone /\ data.results # <<>>
    THEN [found |-> TRUE, name |-> data.results[1].name,
          uri |-> data.results[1].uri]
    ELSE [found |-> TRUE, name |-> "A", uri |-> <<"search", "current?string=A">>]

\* find_uri_from_name: the first result, or (None, None)
find_uri_from_name(data) ==
    IF ~data.isNone /\ data.results # <<>>
    THEN [found |-> TRUE, name |-> data.results[1].name,
          uri |-> data.results[1].uri]
    ELSE [found |-> FALSE, name |-> "", uri |-> <<>>]

\* "if name_start and uri_start"
SeedOk(res) == res.found /\ res.name # "" /\ res.uri # <<>>

\* uri.split('/')[-1]
EntityId(uri) == uri[Len(uri)]

\* langdetect.detect on a related name: a language code, or "raise" for the
\* LangDetectException it throws on a text without features.  The outcome is
\* taken as fixed per name.
detect(name) ==
    CASE name = "" -> "raise"
      [] name \in {"A", "B"} -> "en"
      [] OTHER -> "es"

\* line 45 keeping every record detect() returns a language for
IsEnglish_AnyLanguage(lang) == TRUE

\* the test of line 45
IsEnglish(lang) == lang = "en"

\* f"{relationLabel}({additionalRelationLabel})"
Label(info) ==
    << info.relationLabel, "(", info.additionalRelationLabel, ")" >>

EmptyGraph == [nodes |-> <<>>, edges |-> <<>>]

InSeq(x, s) == \E i \in 1..Len(s) : s[i] = x

AddNode(nodes, n) == IF InSeq(n, nodes) THEN nodes ELSE Append(nodes, n)

\* add_edge keeping the attributes of an edge that exists
add_edge_KeepFirst(g, u, v, label, uri, d) ==
    LET e == [u |-> u, v |-> v, label |-> label, uri |-> uri, depth |-> d]
        has == \E i \in 1..Len(g.edges) : g.edges[i].u = u /\ g.edges[i].v = v
    IN  [nodes |-> AddNode(AddNode(g.nodes, u), v),
         edges |-> IF has THEN g.edges ELSE Append(g.edges, e)]

\* add_edge recording the level of the child instead of the current level
add_edge_ChildDepth(g, u, v, label, uri, d) ==
    LET e == [u |-> u, v |-> v, label |-> label, uri |-> uri, depth |-> d + 1]
        has == \E i \in 1..Len(g.edges) : g.edges[i].u = u /\ g.edges[i].v = v
    IN  [nodes |-> AddNode(AddNode(g.nodes, u), v),
         edges |-> IF has
                   THEN [i \in 1..Len(g.edges) |->
                           IF g.edges[i].u = u /\ g.edges[i].v = v
                           THEN e ELSE g.edges[i]]
                   ELSE Append(g.edges, e)]

\* DiGraph.add_edge(u, v, label=, uri=, depth=): both nodes are added if
\* missing, and the attributes of an existing (u, v) are overwritten in place
add_edge(g, u, v, label, uri, d) ==
    LET e == [u |-> u, v |-> v, label |-> label, uri |-> uri, depth |-> d]
        has == \E i \in 1..Len(g.edges) : g.edges[i].u = u /\ g.edges[i].v = v
    IN  [nodes |-> AddNode(AddNode(g.nodes, u), v),
         edges |-> IF has
                   THEN [i \in 1..Len(g.edges) |->
                           IF g.edges[i].u = u /\ g.edges[i].v = v
                           THEN e ELSE g.edges[i]]
                   ELSE Append(g.edges, e)]

RECURSIVE SelectFrom(_, _, _)
\* the entries of edges whose source is n, from index i on
SelectFrom(edges, n, i) ==
    IF i > Len(edges) THEN <<>>
    ELSE IF edges[i].u = n
         THEN <<edges[i]>> \o SelectFrom(edges, n, i + 1)
         ELSE SelectFrom(edges, n, i + 1)

RECURSIVE EdgesFrom(_, _)
\* graph.edges(data=True): for each node in insertion order, its out-edges
\* in the order in which they were first added
EdgesFrom(g, k) ==
    IF k > Len(g.nodes) THEN <<>>
    ELSE SelectFrom(g.edges, g.nodes[k], 1) \o EdgesFrom(g, k + 1)

GraphEdges(g) == EdgesFrom(g, 1)

RECURSIVE get_relations_loop(_, _, _, _, _, _)
\* the for loop of get_relations from record i on; st carries the graph, the
\* kids, the exception raised, if any, and (history) the names dropped and
\* the add_edge calls made; c is the number of this get_relations call
get_relations_loop(d, name, result, i, st, c) ==
    IF i > Len(result) THEN st
    ELSE LET info == result[i]
             lang == detect(info.relatedIdName)
         IN  IF lang = "raise"
             THEN [st EXCEPT !.fault = "LangDetectException"]
             ELSE IF IsEnglish(lang)
             THEN get_relations_loop(d, name, result, i + 1,
                    [st EXCEPT
                       !.graph = add_edge(st.graph, name, info.relatedIdName,
                                          Label(info), info.relatedId, d),
                       !.kids = Append(st.kids,
                                  <<info.relatedIdName, info.relatedId>>),
                       !.writes = Append(st.writes,
                                  [u |-> name, v |-> info.relatedIdName,
                                   label |-> Label(info),
                                   uri |-> info.relatedId, depth |-> d,
                                   call |-> c])], c)
             ELSE get_relations_loop(d, name, result, i + 1,
                    [st EXCEPT !.dropped = @ \cup {info.relatedIdName}], c)

\* get_relations(depth, name, uri, 1, graph), given what get_request returned
\* for f"{uri}/relations?pageNumber=1"; c is the number of this call
get_relations(d, name, uri, data, g, c) ==
    LET st0 == [graph |-> g, kids |-> <<>>, dropped |-> {}, fault |-> "none",
                writes |-> <<>>]
    IN  IF data.isNone
        THEN [st0 EXCEPT !.fault = "AttributeError"]
        ELSE get_relations_loop(d, name, data.result, 1, st0, c)

\* the while test with a strict bound
WhileCond_Strict(d, md) == d < md

\* "while depth <= max_depth"
WhileCond(d, md) == d <= md

\* the test of line 157 without the visited check
ExpandCond_NoVisitedCheck(d, md, id, expanded) == d <= md

\* "if depth <= max_depth and entity_id not in expanded_uris"
ExpandCond(d, md, id, expanded) == d <= md /\ ~InSeq(id, expanded)

\* frontier.pop(): the entry at the right end
PopIndex_Right(q) == Len(q)

\* index of the entry frontier.popleft() removes
PopIndex(q) == 1

RemoveAt(q, k) == SubSeq(q, 1, k - 1) \o SubSeq(q, k + 1, Len(q))

RECURSIVE FirstDepth(_, _, _)
\* node_depth.get(node, 0) after the loop of lines 66-71: the depth of the
\* first edge, in iteration order, that touches the node
FirstDepth(es, n, i) ==
    IF i > Len(es) THEN 0
    ELSE IF es[i].u = n \/ es[i].v = n THEN es[i].depth
         ELSE FirstDepth(es, n, i + 1)

\* depth_values of create_3d_graph
DepthValues(g) ==
    [k \in 1..Len(g.nodes) |-> FirstDepth(GraphEdges(g), g.nodes[k], 1)]

\* ---------------------------------------------------------------- actions
\* A step of the model is one HTTP exchange together with the code that runs
\* until the next one: the program is single-threaded and takes no other
\* input in between.
NoResponse == [isNone |-> FALSE, result |-> <<>>, results |-> <<>>]

NoNode == << "", <<>> >>

NoTag == [ord |-> 0, lvl |-> 0]

RECURSIVE Advance(_, _, _)
\* lines 151-157 and 161: the loops of main run from position s.pc until an
\* entry is to be expanded ("call") or the while loop ends ("exit")
Advance(s, md, expanded) ==
    IF s.pc = "while"
    THEN IF WhileCond(s.depth, md)
         THEN Advance([s EXCEPT !.pc = "for", !.remaining = Len(s.frontier)],
                      md, expanded)
         ELSE [s EXCEPT !.pc = "exit"]
    ELSE IF s.remaining = 0
         THEN Advance([s EXCEPT !.pc = "while", !.depth = @ + 1], md, expanded)
         ELSE LET k == PopIndex(s.frontier)
                  popped == [s EXCEPT !.frontier = RemoveAt(@, k),
                                      !.frontierTag = RemoveAt(@, k),
                                      !.current_node = s.frontier[k],
                                      !.currentTag = s.frontierTag[k]]
              IN  IF ExpandCond(s.depth, md, EntityId(s.frontier[k][2]),
                                expanded)
                  THEN [popped EXCEPT !.pc = "call"]
                  ELSE Advance([popped EXCEPT !.remaining = @ - 1],
                               md, expanded)

\* the loops of main resume at position p; when the while loop ends the graph
\* goes to create_3d_graph (lines 163-179)
Resume(p, fr, tags, d, rem, expanded, g) ==
    \E s \in { Advance([pc |-> p, frontier |-> fr, frontierTag |-> tags,
                        depth |-> d, remaining |-> rem,
                        current_node |-> current_node,
                        currentTag |-> currentTag], max_depth, expanded) } :
        /\ pc' = IF s.pc = "exit" THEN "done" ELSE s.pc
        /\ frontier' = s.frontier
        /\ frontierTag' = s.frontierTag
        /\ depth' = s.depth
        /\ remaining' = s.remaining
        /\ current_node' = s.current_node
        /\ currentTag' = s.currentTag
        /\ depth_values' = IF s.pc = "exit" THEN DepthValues(g)
                           ELSE depth_values

Init ==
    /\ pc = "start"
    /\ max_depth \in 0..MaxDepthBound
    /\ search_data = NoResponse
    /\ name_start = ""
    /\ uri_start = <<>>
    /\ frontier = <<>>
    /\ current_node = NoNode
    /\ expanded_uris = <<>>
    /\ graph = EmptyGraph
    /\ depth = 0
    /\ remaining = 0
    /\ fault = "none"
    /\ depth_values = <<>>
    /\ calls = <<>>
    /\ frontierTag = <<>>
    /\ currentTag = NoTag
    /\ enqueued = 0
    /\ dropped = {}
    /\ writes = <<>>

\* lines 143-157: the term resolves, the crawl state is set up and the loops
\* start
SearchFound ==
    /\ pc = "start"
    /\ \E response \in SearchResponses :
         LET data == get_request(response)
             res == find_uri_from_name(data)
         IN  /\ SeedOk(res)
             /\ search_data' = data
             /\ name_start' = res.name
             /\ uri_start' = res.uri
             /\ enqueued' = 1
             /\ Resume("while", << <<res.name, res.uri>> >>,
                       << [ord |-> 1, lvl |-> -1] >>, 0, 0, <<>>, EmptyGraph)
    /\ UNCHANGED << max_depth, expanded_uris, graph, fault, calls, dropped,
                    writes >>

\* lines 143-145: the term does not resolve, nothing is crawled
SearchNotFound ==
    /\ pc = "start"
    /\ \E response \in SearchResponses :
         LET data == get_request(response)
             res == find_uri_from_name(data)
         IN  /\ ~SeedOk(res)
             /\ search_data' = data
             /\ name_start' = res.name
             /\ uri_start' = res.uri
    /\ pc' = "aborted"
    /\ UNCHANGED << max_depth, frontier, current_node,
                    expanded_uris, graph, depth, remaining, fault,
                    depth_values, calls, frontierTag, currentTag, enqueued,
                    dropped, writes >>

\* TRUE iff detect() raises on some record of the page
Raises(page) ==
    \E i \in 1..Len(page) : detect(page[i].relatedIdName) = "raise"

OkResponses ==
    { r \in RelationResponses : r.status_code = 200 /\ ~Raises(r.result) }

HttpErrorResponses == { r \in RelationResponses : r.status_code # 200 }

DetectErrorResponses ==
    { r \in RelationResponses : r.status_code = 200 /\ Raises(r.result) }

\* lines 158-159 for current_node with the given response, and the loops of
\* main up to the next expansion; an exception leaves main
Expand(response) ==
    /\ pc = "call"
    /\ \E r \in { get_relations(depth, current_node[1], current_node[2],
                                 get_request(response), graph,
                                 Len(calls) + 1) } :
       LET name == current_node[1]
           uri == current_node[2]
           n == Len(r.kids)
           expanded == Append(expanded_uris, EntityId(uri))
       IN  /\ calls' = Append(calls, [depth |-> depth, name |-> name,
                                      uri |-> uri, tag |-> currentTag,
                                      status |-> response.status_code])
           /\ graph' = r.graph
           /\ dropped' = dropped \cup r.dropped
           /\ writes' = writes \o r.writes
           /\ fault' = r.fault
           /\ IF r.fault = "none"
              THEN /\ enqueued' = enqueued + n
                   /\ expanded_uris' = expanded
                   /\ Resume("for", frontier \o r.kids,
                             frontierTag \o
                               [j \in 1..n |->
                                  [ord |-> enqueued + j, lvl |-> depth]],
                             depth, remaining - 1, expanded, r.graph)
              ELSE /\ pc' = "crashed"
                   /\ UNCHANGED << frontier, frontierTag, depth, remaining,
                                   current_node, currentTag, depth_values,
                                   enqueued, expanded_uris >>
    /\ UNCHANGED << max_depth, search_data, name_start, uri_start >>

\* get_relations returns its kids
PopExpand ==
    /\ pc = "call"
    /\ \E response \in OkResponses : Expand(response)

\* line 44 on the None of a failed request: AttributeError
PopExpandHttpError ==
    /\ pc = "call"
    /\ \E response \in HttpErrorResponses : Expand(response)

\* line 45 on a name detect() raises on: the exception leaves get_relations
PopExpandDetectError ==
    /\ pc = "call"
    /\ \E response \in DetectErrorResponses : Expand(response)

Next ==
    \/ SearchFound
    \/ SearchNotFound
    \/ PopExpand
    \/ PopExpandHttpError
    \/ PopExpandDetectError

Spec == Init /\ [][Next]_vars

\* ---------------------------------------------------------------- claims
Edges == graph.edges

Nodes == graph.nodes

\* TRUE iff name n is a node of the graph or an end of one of its edges
InGraph(n) ==
    \/ InSeq(n, Nodes)
    \/ \E i \in 1..Len(Edges) : Edges[i].u = n \/ Edges[i].v = n

\* C1: no entity id (the last segment of the uri) is passed to get_relations
\* more than once in a run.
C1_ExpandedAtMostOnce ==
    \A i, j \in 1..Len(calls) :
        i < j => calls[i].uri[Len(calls[i].uri)] # calls[j].uri[Len(calls[j].uri)]

\* an id was enqueued as a child of two different expansions, and expanded
C1_Witness ==
    /\ pc = "done"
    /\ \E a, b \in 1..Len(writes) :
          /\ writes[a].call # writes[b].call
          /\ writes[a].uri # writes[b].uri
          /\ EntityId(writes[a].uri) = EntityId(writes[b].uri)
          /\ InSeq(EntityId(writes[a].uri), expanded_uris)

\* C2: every edge of the graph has 0 <= depth <= max_depth, in every state.
C2_EdgeDepthBounded ==
    \A i \in 1..Len(Edges) : Edges[i].depth >= 0 /\ Edges[i].depth <= max_depth

\* a finished crawl with an edge recorded at the last level
C2_Witness ==
    /\ pc = "done"
    /\ max_depth > 0
    /\ \E i \in 1..Len(Edges) : Edges[i].depth = max_depth

\* C3: a relations call that returns a non-success status does not abort the
\* crawl (the node contributes nothing and the run goes on to the export).
C3_HttpErrorNotFatal ==
    \A i \in 1..Len(calls) : calls[i].status # 200 => pc # "crashed"

\* C4: a language check that raises on a record drops that record only; it
\* never aborts the fetch or the run.
C4_DetectFailureNotFatal ==
    ~(pc = "crashed" /\ fault = "LangDetectException")

\* C5 as stated: a name that occurred in a relation record and failed the
\* English check is not in the final graph, as a node or as an end of an edge.
C5_DroppedNameNotInGraph ==
    pc = "done" => \A n \in dropped : ~InGraph(n)

\* C5 amended: every node and every end of an edge is the seed's display
\* name (which is never checked) or a name the English check accepts; a
\* record failing the check adds nothing.
C5_OnlySeedOrEnglish ==
    /\ \A k \in 1..Len(Nodes) :
          Nodes[k] = name_start \/ detect(Nodes[k]) = "en"
    /\ \A i \in 1..Len(Edges) :
          /\ Edges[i].u = name_start \/ detect(Edges[i].u) = "en"
          /\ detect(Edges[i].v) = "en"
    /\ \A i \in 1..Len(frontier) :
          frontier[i][1] = name_start \/ detect(frontier[i][1]) = "en"

\* a finished crawl whose seed name failed the check in a record, and is a
\* node all the same
C5_Witness ==
    /\ pc = "done"
    /\ name_start \in dropped
    /\ InSeq(name_start, Nodes)
    /\ Len(Edges) > 0

\* C6: when the search returns no results or fails, the term is reported as
\* not found, the crawl is aborted and get_relations is never invoked.
C6_NotFoundAborts ==
    (pc # "start" /\ (search_data.isNone \/ search_data.results = <<>>))
        => /\ pc = "aborted"
           /\ name_start = "" /\ uri_start = <<>>
           /\ calls = <<>>
           /\ frontier = <<>> /\ Edges = <<>>

\* the search answered 200 with an empty results array
C6_Witness ==
    pc = "aborted" /\ ~search_data.isNone /\ search_data.results = <<>>

\* C7: with max_depth = 0 the seed is expanded exactly once, nothing else is
\* expanded, and every edge has the seed's name as source and depth 0.
C7_DepthZeroSingleBatch ==
    max_depth = 0 =>
        /\ Len(calls) <= 1
        /\ \A i \in 1..Len(calls) :
              /\ calls[i].name = name_start
              /\ calls[i].uri = uri_start
              /\ calls[i].depth = 0
        /\ \A i \in 1..Len(Edges) :
              Edges[i].u = name_start /\ Edges[i].depth = 0
        /\ pc = "done" => Len(calls) = 1

\* a finished crawl of depth 0 with children that were never expanded
C7_Witness ==
    /\ max_depth = 0
    /\ pc = "done"
    /\ Len(frontier) > 1
    /\ Len(Edges) > 0

\* index of the last add_edge call for the pair of writes[k]
LastWrite(k) ==
    CHOOSE m \in k..Len(writes) :
        /\ writes[m].u = writes[k].u /\ writes[m].v = writes[k].v
        /\ \A n \in (m + 1)..Len(writes) :
              ~(writes[n].u = writes[k].u /\ writes[n].v = writes[k].v)

\* C8: the graph holds at most one edge per ordered (source, target) pair,
\* and its label, uri and depth are those of the most recent recording.
C8_OneEdgePerPairLastWriteWins ==
    /\ \A i, j \in 1..Len(Edges) :
          (Edges[i].u = Edges[j].u /\ Edges[i].v = Edges[j].v) => i = j
    /\ \A k \in 1..Len(writes) :
          LET w == writes[LastWrite(k)]
          IN  \E i \in 1..Len(Edges) :
                 Edges[i] = [u |-> w.u, v |-> w.v, label |-> w.label,
                             uri |-> w.uri, depth |-> w.depth]
    /\ \A i \in 1..Len(Edges) :
          \E k \in 1..Len(writes) :
              writes[k].u = Edges[i].u /\ writes[k].v = Edges[i].v

\* a pair recorded twice on one page with different labels, and again by a
\* later expansion
C8_Witness ==
    /\ pc = "done"
    /\ \E a, b, c \in 1..Len(writes) :
          /\ a < b /\ b < c
          /\ writes[a].u = writes[b].u /\ writes[a].v = writes[b].v
          /\ writes[c].u = writes[b].u /\ writes[c].v = writes[b].v
          /\ writes[a].call = writes[b].call
          /\ writes[a].label # writes[b].label
          /\ writes[c].call # writes[b].call
          /\ writes[c].depth # writes[b].depth

\* C9: entries are expanded in the order in which they were enqueued, and an
\* entry enqueued during level d is expanded, if at all, at level d + 1: the
\* batch of a level is served before anything enqueued during it.
C9_BreadthFirstFifo ==
    /\ \A i \in 1..Len(calls) : calls[i].tag.lvl = calls[i].depth - 1
    /\ \A i, j \in 1..Len(calls) :
          i < j => /\ calls[i].tag.ord < calls[j].tag.ord
                   /\ calls[i].depth <= calls[j].depth
    /\ pc = "call" =>
          /\ currentTag.lvl = depth - 1
          /\ \A i \in 1..Len(calls) : calls[i].tag.ord < currentTag.ord
          /\ \A i \in 1..Len(frontier) :
                /\ frontierTag[i].ord > currentTag.ord
                /\ frontierTag[i].lvl = IF i < remaining THEN depth - 1
                                        ELSE depth

\* the second entry of the batch of level 1 is about to be expanded, after the
\* first, while children enqueued during level 1 wait behind it
C9_Witness ==
    /\ pc = "call"
    /\ depth = 1
    /\ remaining = 1
    /\ \E i \in 1..Len(calls) : calls[i].depth = 1
    /\ \E i \in 1..Len(frontier) : frontierTag[i].lvl = 1

RECURSIVE MinOf(_)
MinOf(S) ==
    LET x == CHOOSE y \in S : TRUE
    IN  IF S = {x} THEN x
        ELSE LET m == MinOf(S \ {x}) IN IF x < m THEN x ELSE m

\* the least depth of the edges touching node n, 0 when there is none
MinDepth(n) ==
    LET ds == { Edges[i].depth : i \in { j \in 1..Len(Edges) :
                                          Edges[j].u = n \/ Edges[j].v = n } }
    IN  IF ds = {} THEN 0 ELSE MinOf(ds)

\* C10: the depth-colour value of every node of the final graph is the
\* minimum depth over the edges touching it (0 for a node without edges).
C10_DepthValueIsMinimum ==
    pc = "done" =>
        /\ Len(depth_values) = Len(Nodes)
        /\ \A k \in 1..Len(Nodes) : depth_values[k] = MinDepth(Nodes[k])

====
